---- MODULE Spec2Model ----
(***************************************************************************)
(* Model of middlewared/plugins/zfs.py: the vdev locator find_vdev, the    *)
(* zfs.pool service entry points (get_disks, extend, detach, replace) and  *)
(* the scrub job with its monitor thread.                                  *)
(*                                                                         *)
(* Python values are records [t, n, s]: an int carries n, a str carries s  *)
(* (a sequence of string pieces), None carries neither.  Python's == is    *)
(* then equality of records, so an int never equals a str.                 *)
(* A str is a sequence of pieces; the pieces "/dev/" and ".eli" are the    *)
(* substrings the code searches for, every other piece is free text.       *)
(***************************************************************************)
EXTENDS Integers, Sequences, FiniteSets, TLC

VARIABLES
    pool,        \* the live pool: [children: root_vdev.children, vdevs: seq of vdev]
    call,        \* the entry point last called, with its arguments
    result,      \* what that call gave back to its caller
    engineErr,   \* code of the ZFSException the engine raised in that call, or NoErr
    engineLog,   \* engine mutation primitives that call invoked, in order
    poolBefore,  \* the pool as it was when that call started
    scan,        \* pool.scrub: [function, state, percentage]
    callerPc,    \* position of the thread running scrub()
    watchPc,     \* position of the thread running watch()
    obs,         \* the values of pool.scrub that watch() has read, in order
    progress     \* the job.set_progress calls, in order

vars == <<pool, call, result, engineErr, engineLog, poolBefore,
          scan, callerPc, watchPc, obs, progress>>

poolVars == <<pool, call, result, engineErr, engineLog, poolBefore>>
scrubVars == <<scan, callerPc, watchPc, obs, progress>>

----------------------------------------------------------------------------
(* Bounds *)

MaxExisting == 2     \* longest `existing` list passed to extend
MaxVdevs == 5        \* extend is not started once the tree has this many nodes
MaxPolls == 3        \* watch() reads pool.scrub at most this many times

----------------------------------------------------------------------------
(* Python values *)

None == [t |-> "none", n |-> 0, s |-> <<>>]
IntV(i) == [t |-> "int", n |-> i, s |-> <<>>]
StrV(q) == [t |-> "str", n |-> 0, s |-> q]

EINVAL == 22
ENOENT == 2
NoErr == 0 - 1
NoCode == 0 - 2      \* CallError raised without an errno argument
EngineCodes == {2, 2007}

DEV == "/dev/"
ELI == ".eli"

\* str.replace(old, '') for a piece `old`: every occurrence is removed.
Replace(q, old) == SelectSeq(q, LAMBDA c : c # old)

----------------------------------------------------------------------------
(* The vdev tree *)

Disk(g, p, kids) == [guid |-> IntV(g), type |-> "disk", path |-> StrV(p), children |-> kids]
Mirror(g, kids) == [guid |-> IntV(g), type |-> "mirror", path |-> None, children |-> kids]

\* guid the engine gives to the vdev stored at index i
GuidOf(i) == 10 + i

DiskPaths(nm) == { <<DEV, nm>>, <<DEV, nm, ELI>>, <<DEV, "gptid/", DEV, nm>> }

\* A mirror of two disks plus a single top-level disk, every disk plain,
\* geli-encrypted or labelled.
InitPools ==
    { [children |-> <<1, 4>>,
       vdevs |-> << Mirror(GuidOf(1), <<2, 3>>),
                    Disk(GuidOf(2), p2, <<>>),
                    Disk(GuidOf(3), p3, <<>>),
                    Disk(GuidOf(4), p4, <<>>) >>] :
        p2 \in DiskPaths("ada0"), p3 \in DiskPaths("ada1"), p4 \in DiskPaths("ada2") }

\* find_vdev without line 32: the children of a visited vdev are never searched.
RECURSIVE find_vdev_loop_top_level_only(_, _, _)
find_vdev_loop_top_level_only(p, children, vname) ==
    IF children = <<>> THEN 0
    ELSE LET i == children[Len(children)]
             rest == SubSeq(children, 1, Len(children) - 1)
             child == p.vdevs[i]
         IN  IF child.guid = vname THEN i
             ELSE IF child.type = "disk" /\ StrV(Replace(child.path.s, DEV)) = vname THEN i
             ELSE find_vdev_loop_top_level_only(p, rest, vname)

RECURSIVE find_vdev_loop(_, _, _)
find_vdev_loop(p, children, vname) ==
    IF children = <<>> THEN 0
    ELSE LET i == children[Len(children)]
             rest == SubSeq(children, 1, Len(children) - 1)
             child == p.vdevs[i]
         IN  IF child.guid = vname THEN i
             ELSE IF child.type = "disk" /\ StrV(Replace(child.path.s, DEV)) = vname THEN i
             ELSE find_vdev_loop(p, rest \o child.children, vname)

\* Index of the vdev found, 0 for None.
find_vdev(p, vname) == find_vdev_loop(p, p.children, vname)

----------------------------------------------------------------------------
(* What a call gives back *)

NoCall == [entry |-> "none"]
NoResult == [kind |-> "none", code |-> NoCode, msg |-> "", arg |-> None, ret |-> 0]
Returned(r) == [kind |-> "ok", code |-> NoCode, msg |-> "", arg |-> None, ret |-> r]
CallError(m, a, c) == [kind |-> "CallError", code |-> c, msg |-> m, arg |-> a, ret |-> 0]

ScanIdle == [function |-> "none", state |-> "none", percentage |-> 0]

\* Identifiers a caller may pass as vname / label / target.
Targets ==
    { IntV(g) : g \in {GuidOf(1), GuidOf(2), GuidOf(4), 99} } \cup
    { StrV(q) : q \in { <<"ada0">>, <<"ada0", ELI>>, <<"gptid/", "ada0">>,
                        <<DEV, "ada0">>, <<"ada2">>, <<"nope">> } }

----------------------------------------------------------------------------
(* find_vdev called on its own *)

InitFind ==
    /\ pool \in InitPools
    /\ call = NoCall
    /\ result = NoResult
    /\ engineErr = NoErr
    /\ engineLog = <<>>
    /\ poolBefore = pool
    /\ scan = ScanIdle
    /\ callerPc = "idle"
    /\ watchPc = "none"
    /\ obs = <<>>
    /\ progress = <<>>

FindVdev ==
    \E vname \in Targets :
        /\ call' = [entry |-> "find_vdev", vname |-> vname]
        /\ result' = Returned(find_vdev(pool, vname))
        /\ UNCHANGED <<pool, engineErr, engineLog, poolBefore>>
        /\ UNCHANGED scrubVars

NextFind == FindVdev

FindSpec == InitFind /\ [][NextFind]_vars

----------------------------------------------------------------------------
(* The storage engine (libzfs) as the service sees it *)

PoolNames == {"tank"}

\* Indices of the vdevs below the root: the listed ones and all their descendants.
RECURSIVE Descendants(_, _)
Descendants(p, kids) ==
    IF kids = <<>> THEN {}
    ELSE {Head(kids)} \cup Descendants(p, p.vdevs[Head(kids)].children)
                     \cup Descendants(p, Tail(kids))

TreeNodes(p) == Descendants(p, p.children)

InSeq(x, q) == \E k \in 1..Len(q) : q[k] = x

\* Index of the vdev that lists t among its children, 0 when the root does.
ParentOf(p, t) ==
    IF \E j \in 1..Len(p.vdevs) : InSeq(t, p.vdevs[j].children)
    THEN CHOOSE j \in 1..Len(p.vdevs) : InSeq(t, p.vdevs[j].children)
    ELSE 0

Substitute(q, old, new) == [k \in 1..Len(q) |-> IF q[k] = old THEN new ELSE q[k]]

\* The engine accepts an attach only onto a leaf disk that is still in the tree.
CanAttach(p, t) == p.vdevs[t].type = "disk" /\ t \in Descendants(p, p.children)

\* target.attach(newvdev): the new disk joins the mirror the target is in; a
\* top-level disk is turned into a mirror of itself and the new disk.
EngineAttach(p, t, path) ==
    LET par == ParentOf(p, t)
        n == Len(p.vdevs)
    IN  IF par # 0
        THEN [p EXCEPT !.vdevs = Append([@ EXCEPT ![par].children = Append(@, n + 1)],
                                        Disk(GuidOf(n + 1), path, <<>>))]
        ELSE [children |-> Substitute(p.children, t, n + 1),
              vdevs |-> p.vdevs \o << Mirror(GuidOf(n + 1), <<t, n + 2>>),
                                      Disk(GuidOf(n + 2), path, <<>>) >>]

\* The engine accepts a detach only of a member of a mirror that has another member.
CanDetach(p, t) ==
    LET par == ParentOf(p, t)
    IN  par # 0 /\ p.vdevs[par].type = "mirror" /\ Len(p.vdevs[par].children) > 1

\* target.detach(): the vdev leaves its parent's list of children.
EngineDetach(p, t) ==
    LET par == ParentOf(p, t)
        without(q) == SelectSeq(q, LAMBDA x : x # t)
    IN  IF par # 0
        THEN [p EXCEPT !.vdevs[par].children = without(@)]
        ELSE [p EXCEPT !.children = without(@)]

\* target.replace(newvdev): a new disk takes the target's place.
EngineReplace(p, t, path) ==
    LET par == ParentOf(p, t)
        n == Len(p.vdevs)
        grown == Append(p.vdevs, Disk(GuidOf(n + 1), path, <<>>))
    IN  IF par # 0
        THEN [p EXCEPT !.vdevs = [grown EXCEPT ![par].children = Substitute(@, t, n + 1)]]
        ELSE [children |-> Substitute(p.children, t, n + 1), vdevs |-> grown]

\* zpool.disks: the paths of the leaf disks, left to right.
RECURSIVE DisksOf(_, _)
DisksOf(p, kids) ==
    IF kids = <<>> THEN <<>>
    ELSE LET v == p.vdevs[Head(kids)]
         IN  (IF v.type = "disk" THEN <<v.path.s>> ELSE DisksOf(p, v.children))
             \o DisksOf(p, Tail(kids))

----------------------------------------------------------------------------
(* Inputs *)

CallNames == {"tank", "nope"}

\* "ada2" names the top-level disk only while that disk is not geli-encrypted.
ExtendTargets == { IntV(GuidOf(2)), StrV(<<"ada2">>) }
NewPaths == { <<DEV, "ada5">> }

Attachvdev == [target : ExtendTargets, type : {"DISK"}, path : NewPaths]

SeqsUpTo(S, n) == UNION { [1..k -> S] : k \in 0..n }

\* An optional list argument: absent (Python None) or a list.
Absent == [some |-> FALSE, v |-> <<>>]
ListV(q) == [some |-> TRUE, v |-> q]

NewArgs == { Absent, ListV(<<>>), ListV(<<"vdev">>) }
ExistingArgs == {Absent} \cup { ListV(q) : q \in SeqsUpTo(Attachvdev, MaxExisting) }

\* `x or []` and the truth value of an optional list
OrEmpty(x) == x.v
Truthy(x) == x.some /\ x.v # <<>>

Labels == { StrV(<<"ada1">>), StrV(<<"ada2">>) }
ReplaceDevs == { <<"ada7">> }

----------------------------------------------------------------------------
(* zfs.pool service *)

\* The handler raising every engine failure as an invalid argument.
EngineException_recoded(c) == CallError("str(e)", None, EINVAL)

\* except libzfs.ZFSException as e: raise CallError(str(e), e.code)
EngineException(c) == CallError("str(e)", None, c)

\* What running part of an entry point leaves behind.
Outcome(p, log, res, err) == [pool |-> p, log |-> log, result |-> res, err |-> err]

\* The first loop of extend (lines 96-100): the resolved targets, in order.
ResolveAll(p, existing) == [k \in 1..Len(existing) |-> find_vdev(p, existing[k].target)]

\* One pass of the second loop of extend (lines 103-105) for entries 1..upto.
RECURSIVE AttachLoop(_, _, _, _)
AttachLoop(p, existing, targets, upto) ==
    IF upto = 0 THEN p
    ELSE EngineAttach(AttachLoop(p, existing, targets, upto - 1),
                      targets[upto], existing[upto].path)

AttachCalls(existing, targets, upto) ==
    [k \in 1..upto |-> [op |-> "attach", target |-> targets[k], path |-> existing[k].path]]

\* The engine can accept the attaches of entries 1..upto one after the other.
Attachable(p, existing, targets, upto) ==
    \A k \in 1..upto : CanAttach(AttachLoop(p, existing, targets, k - 1), targets[k])

\* extend with a single loop: each entry is resolved and attached in turn.
extend_existing_interleaved(p, existing, failAt, c) ==
    LET targets == ResolveAll(p, existing)
        missing == { k \in 1..Len(existing) : targets[k] = 0 }
        stop == IF missing = {} THEN Len(existing) + 1
                ELSE CHOOSE k \in missing : \A j \in missing : k <= j
    IN  IF failAt # 0 /\ failAt < stop
        THEN Outcome(AttachLoop(p, existing, targets, failAt - 1),
                     AttachCalls(existing, targets, failAt), EngineException(c), c)
        ELSE IF missing # {}
        THEN Outcome(AttachLoop(p, existing, targets, stop - 1),
                     AttachCalls(existing, targets, stop - 1),
                     CallError("Failed to find vdev for {}", None, EINVAL), NoErr)
        ELSE Outcome(AttachLoop(p, existing, targets, Len(existing)),
                     AttachCalls(existing, targets, Len(existing)), Returned(0), NoErr)

\* extend undoing the attaches already made when a later one fails.
extend_existing_rollback(p, existing, failAt, c) ==
    LET targets == ResolveAll(p, existing)
        missing == { k \in 1..Len(existing) : targets[k] = 0 }
    IN  IF missing # {}
        THEN Outcome(p, <<>>, CallError("Failed to find vdev for {}", None, EINVAL), NoErr)
        ELSE IF failAt = 0
        THEN Outcome(AttachLoop(p, existing, targets, Len(existing)),
                     AttachCalls(existing, targets, Len(existing)), Returned(0), NoErr)
        ELSE Outcome(p, AttachCalls(existing, targets, failAt), EngineException(c), c)

\* Lines 95-108 of extend on the pool p.  The engine rejects the attach of
\* entry failAt with code c; failAt = 0 when it rejects none.
extend_existing(p, existing, failAt, c) ==
    LET targets == ResolveAll(p, existing)
        missing == { k \in 1..Len(existing) : targets[k] = 0 }
        first == CHOOSE k \in missing : \A j \in missing : k <= j
        \* `target` when line 99 runs: what find_vdev returned for that entry
        target == IF targets[first] = 0 THEN None ELSE p.vdevs[targets[first]].guid
    IN  IF missing # {}
        THEN Outcome(p, <<>>, CallError("Failed to find vdev for {}", target, EINVAL), NoErr)
        ELSE IF failAt = 0
        THEN Outcome(AttachLoop(p, existing, targets, Len(existing)),
                     AttachCalls(existing, targets, Len(existing)), Returned(0), NoErr)
        ELSE Outcome(AttachLoop(p, existing, targets, failAt - 1),
                     AttachCalls(existing, targets, failAt), EngineException(c), c)

\* The engine's choice (failAt, c) is one it can make: every attach it
\* accepts is onto a leaf disk, and no choice is left when none is reached.
EngineCanChoose(p, existing, failAt) ==
    LET targets == ResolveAll(p, existing)
    IN  IF \E k \in 1..Len(existing) : targets[k] = 0
        THEN failAt = 0
        ELSE Attachable(p, existing, targets,
                        IF failAt = 0 THEN Len(existing) ELSE failAt - 1)

Finish(o) ==
    /\ pool' = o.pool
    /\ engineLog' = o.log
    /\ result' = o.result
    /\ engineErr' = o.err
    /\ callerPc' = IF o.result.kind = "ok" THEN "returned" ELSE "raised"
    /\ watchPc' = "none" /\ obs' = <<>> /\ progress' = <<>>
    /\ UNCHANGED scan

extend(name, new, existing) ==
    /\ callerPc \in {"idle", "returned", "raised"}
    /\ Len(pool.vdevs) < MaxVdevs
    /\ call' = [entry |-> "extend", name |-> name, new |-> new, existing |-> existing]
    /\ poolBefore' = pool
    /\ IF ~new.some /\ ~existing.some
       THEN Finish(Outcome(pool, <<>>,
                CallError("New or existing vdevs must be provided", None, EINVAL), NoErr))
       ELSE IF Truthy(new)
       THEN Finish(Outcome(pool, <<>>,
                CallError("Adding new vdev is not implemented yet", None, NoCode), NoErr))
       ELSE IF name \notin PoolNames
       THEN \E c \in EngineCodes : Finish(Outcome(pool, <<>>, EngineException(c), c))
       ELSE \E failAt \in 0..Len(OrEmpty(existing)), c \in EngineCodes :
                /\ EngineCanChoose(pool, OrEmpty(existing), failAt)
                /\ Finish(extend_existing(pool, OrEmpty(existing), failAt, c))

Extend == \E name \in CallNames, new \in NewArgs, existing \in ExistingArgs :
              extend(name, new, existing)

\* detach raising its lookup failure without an errno.
detach_target_no_errno(p, label, refused, c) ==
    LET target == find_vdev(p, label)
        call_log == << [op |-> "detach", target |-> target, path |-> <<>>] >>
    IN  IF target = 0
        THEN Outcome(p, <<>>, CallError("Failed to find vdev for {}", label, NoCode), NoErr)
        ELSE IF refused THEN Outcome(p, call_log, EngineException(c), c)
        ELSE Outcome(EngineDetach(p, target), call_log, Returned(0), NoErr)

\* Lines 118-123 of detach on the pool p; the engine refuses the detach with
\* code c when `refused`.
detach_target(p, label, refused, c) ==
    LET target == find_vdev(p, label)
        call_log == << [op |-> "detach", target |-> target, path |-> <<>>] >>
    IN  IF target = 0
        THEN Outcome(p, <<>>, CallError("Failed to find vdev for {}", label, EINVAL), NoErr)
        ELSE IF refused THEN Outcome(p, call_log, EngineException(c), c)
        ELSE Outcome(EngineDetach(p, target), call_log, Returned(0), NoErr)

detach(name, label) ==
    /\ callerPc \in {"idle", "returned", "raised"}
    /\ call' = [entry |-> "detach", name |-> name, label |-> label]
    /\ poolBefore' = pool
    /\ IF name \notin PoolNames
       THEN \E c \in EngineCodes : Finish(Outcome(pool, <<>>, EngineException(c), c))
       ELSE \E refused \in BOOLEAN, c \in EngineCodes :
                /\ find_vdev(pool, label) # 0 /\ ~refused => CanDetach(pool, find_vdev(pool, label))
                /\ Finish(detach_target(pool, label, refused, c))

Detach == \E name \in CallNames, label \in Labels : detach(name, label)

\* Lines 133-141 of replace on the pool p.
replace_target(p, label, dev, refused, c) ==
    LET target == find_vdev(p, label)
        path == <<DEV>> \o dev
        call_log == << [op |-> "replace", target |-> target, path |-> path] >>
    IN  IF target = 0
        THEN Outcome(p, <<>>, CallError("Failed to find vdev for {}", label, EINVAL), NoErr)
        ELSE IF refused THEN Outcome(p, call_log, EngineException(c), c)
        ELSE Outcome(EngineReplace(p, target, path), call_log, Returned(0), NoErr)

replace(name, label, dev) ==
    /\ callerPc \in {"idle", "returned", "raised"}
    /\ Len(pool.vdevs) < MaxVdevs
    /\ call' = [entry |-> "replace", name |-> name, label |-> label, dev |-> dev]
    /\ poolBefore' = pool
    /\ IF name \notin PoolNames
       THEN \E c \in EngineCodes : Finish(Outcome(pool, <<>>, EngineException(c), c))
       ELSE \E refused \in BOOLEAN, c \in EngineCodes :
                /\ find_vdev(pool, label) # 0 /\ ~refused => CanAttach(pool, find_vdev(pool, label))
                /\ Finish(replace_target(pool, label, dev, refused, c))

ReplaceDisk == \E name \in CallNames, label \in Labels, dev \in ReplaceDevs :
                   replace(name, label, dev)

\* The names get_disks yields: every pool disk whose geom lookup succeeds.
RECURSIVE YieldDisks(_, _, _)
YieldDisks(disks, k, unresolved) ==
    IF k > Len(disks) THEN <<>>
    ELSE LET dev == Replace(Replace(disks[k], DEV), ELI)
         IN  (IF k \in unresolved THEN <<>> ELSE <<dev>>) \o YieldDisks(disks, k + 1, unresolved)

get_disks(name) ==
    /\ callerPc \in {"idle", "returned", "raised"}
    /\ call' = [entry |-> "get_disks", name |-> name]
    /\ poolBefore' = pool
    /\ IF name \notin PoolNames
       THEN \E c \in EngineCodes :
                Finish(Outcome(pool, <<>>, CallError("str(e)", None, ENOENT), c))
       ELSE LET disks == DisksOf(pool, pool.children)
            IN  \E unresolved \in SUBSET (1..Len(disks)) :
                    Finish(Outcome(pool, <<>>, Returned(YieldDisks(disks, 1, unresolved)), NoErr))

GetDisks == \E name \in CallNames : get_disks(name)

----------------------------------------------------------------------------
(* scrub and its monitor thread *)

Percentages == {0, 30, 100}

Scanning(pct) == [function |-> "scrub", state |-> "scanning", percentage |-> pct]

\* Lines 149-154: look the pool up and ask the engine to start a scrub.
scrub_start(name) ==
    /\ callerPc \in {"idle", "returned", "raised"}
    /\ call' = [entry |-> "scrub", name |-> name]
    /\ poolBefore' = pool
    /\ engineLog' = <<>>
    /\ UNCHANGED pool
    /\ watchPc' = "none" /\ obs' = <<>> /\ progress' = <<>>
    /\ \/ /\ name \in PoolNames
          /\ scan' = Scanning(0)
          /\ engineErr' = NoErr
          /\ result' = NoResult
          /\ callerPc' = "start"
       \/ \E c \in EngineCodes :
          /\ UNCHANGED scan
          /\ engineErr' = c
          /\ result' = EngineException(c)
          /\ callerPc' = "raised"

ScrubStart == \E name \in CallNames : scrub_start(name)

\* Lines 173-174: the monitor thread is created and started.
ThreadStart ==
    /\ callerPc = "start"
    /\ callerPc' = "join"
    /\ watchPc' = "poll"
    /\ UNCHANGED <<pool, call, result, engineErr, engineLog, poolBefore, scan, obs, progress>>

\* scrub() returning without waiting for the monitor thread.
ThreadJoin_no_wait ==
    /\ callerPc = "join"
    /\ callerPc' = "returned"
    /\ result' = Returned(0)
    /\ UNCHANGED <<pool, call, engineErr, engineLog, poolBefore, scan, watchPc, obs, progress>>

\* Line 175: join returns once the thread has ended, and scrub() returns.
ThreadJoin ==
    /\ callerPc = "join"
    /\ watchPc = "done"
    /\ callerPc' = "returned"
    /\ result' = Returned(0)
    /\ UNCHANGED <<pool, call, engineErr, engineLog, poolBefore, scan, watchPc, obs, progress>>

Report(pct, text) == [percentage |-> pct, message |-> text]

\* watch() without the break of line 164: it keeps polling a finished scrub.
watch_step_no_break(scrub) ==
    IF scrub.function # "scrub" THEN [pc |-> "done", reports |-> <<>>]
    ELSE IF scrub.state = "finished"
    THEN [pc |-> "sleep", reports |-> << Report(100, "Scrub finished") >>]
    ELSE IF scrub.state = "canceled" THEN [pc |-> "done", reports |-> <<>>]
    ELSE IF scrub.state = "scanning"
    THEN [pc |-> "sleep", reports |-> << Report(scrub.percentage, "Scrubbing") >>]
    ELSE [pc |-> "sleep", reports |-> <<>>]

\* watch() reporting completion for a canceled scrub as well.
watch_step_canceled_reports(scrub) ==
    IF scrub.function # "scrub" THEN [pc |-> "done", reports |-> <<>>]
    ELSE IF scrub.state \in {"finished", "canceled"}
    THEN [pc |-> "done", reports |-> << Report(100, "Scrub finished") >>]
    ELSE IF scrub.state = "scanning"
    THEN [pc |-> "sleep", reports |-> << Report(scrub.percentage, "Scrubbing") >>]
    ELSE [pc |-> "sleep", reports |-> <<>>]

\* Lines 159-170: what watch() does with the value of pool.scrub it has read:
\* where it goes next and what it reports.
watch_step(scrub) ==
    IF scrub.function # "scrub" THEN [pc |-> "done", reports |-> <<>>]
    ELSE IF scrub.state = "finished"
    THEN [pc |-> "done", reports |-> << Report(100, "Scrub finished") >>]
    ELSE IF scrub.state = "canceled" THEN [pc |-> "done", reports |-> <<>>]
    ELSE IF scrub.state = "scanning"
    THEN [pc |-> "sleep", reports |-> << Report(scrub.percentage, "Scrubbing") >>]
    ELSE [pc |-> "sleep", reports |-> <<>>]

\* Lines 158-170: one pass of the loop of watch(), up to the sleep.
WatchPoll ==
    /\ watchPc = "poll"
    /\ Len(obs) < MaxPolls
    /\ LET scrub == scan
           step == watch_step(scrub)
       IN  /\ obs' = Append(obs, scrub)
           /\ progress' = progress \o step.reports
           /\ watchPc' = step.pc
    /\ UNCHANGED <<pool, call, result, engineErr, engineLog, poolBefore, scan, callerPc>>

\* Line 171: time.sleep(1) is over.
WatchSleep ==
    /\ watchPc = "sleep"
    /\ watchPc' = "poll"
    /\ UNCHANGED <<pool, call, result, engineErr, engineLog, poolBefore, scan, callerPc,
                   obs, progress>>

\* The engine's scan moves on while scrub() is running: it makes progress,
\* finishes, is canceled from outside, or gives way to another scan.
ScanAdvance ==
    /\ callerPc \in {"start", "join"}
    /\ scan.function = "scrub" /\ scan.state = "scanning"
    /\ \/ \E pct \in Percentages : pct > scan.percentage /\ scan' = Scanning(pct)
       \/ scan' = [scan EXCEPT !.state = "finished"]
       \/ scan' = [scan EXCEPT !.state = "canceled"]
       \/ scan' = [scan EXCEPT !.function = "resilver"]
       \/ scan' = ScanIdle
    /\ UNCHANGED <<pool, call, result, engineErr, engineLog, poolBefore, callerPc, watchPc,
                   obs, progress>>

----------------------------------------------------------------------------
(* Specifications *)

SpecPools == { p \in InitPools : /\ p.vdevs[2].path.s = <<DEV, "ada0", ELI>>
                                  /\ p.vdevs[3].path.s = <<DEV, "ada1">>
                                  /\ p.vdevs[4].path.s \in { <<DEV, "ada2">>,
                                                             <<DEV, "ada2", ELI>> } }

Init ==
    /\ pool \in SpecPools
    /\ call = NoCall
    /\ result = NoResult
    /\ engineErr = NoErr
    /\ engineLog = <<>>
    /\ poolBefore = pool
    /\ scan = ScanIdle
    /\ callerPc = "idle"
    /\ watchPc = "none"
    /\ obs = <<>>
    /\ progress = <<>>

\* The single-step entry points of the service.
NextPool ==
    \/ Extend
    \/ Detach
    \/ ReplaceDisk
    \/ GetDisks

PoolSpec == Init /\ [][NextPool]_vars

\* The scrub job, its monitor thread and the engine's scan.
NextScrub ==
    \/ ScrubStart
    \/ ThreadStart
    \/ ThreadJoin
    \/ WatchPoll
    \/ WatchSleep
    \/ ScanAdvance

ScrubSpec == Init /\ [][NextScrub]_vars

\* Every entry point up to the engine's answer: the four single-step entry
\* points and the start of scrub, whose monitor is left out.
NextEntry ==
    \/ Extend
    \/ Detach
    \/ ReplaceDisk
    \/ GetDisks
    \/ ScrubStart

EntrySpec == Init /\ [][NextEntry]_vars

\* Every entry point, one call at a time.
Next ==
    \/ Extend
    \/ Detach
    \/ ReplaceDisk
    \/ GetDisks
    \/ ScrubStart
    \/ ThreadStart
    \/ ThreadJoin
    \/ WatchPoll
    \/ WatchSleep
    \/ ScanAdvance

Spec == Init /\ [][Next]_vars

----------------------------------------------------------------------------
(* Properties of find_vdev *)

GuidMatch(p, i, T) == p.vdevs[i].guid = T

StripDevPrefix(q) == IF q # <<>> /\ Head(q) = DEV THEN Tail(q) ELSE q
StripEliSuffix(q) == IF q # <<>> /\ q[Len(q)] = ELI THEN SubSeq(q, 1, Len(q) - 1) ELSE q

\* Path rule as the claim words it: '/dev/' prefix and trailing '.eli' removed.
PathMatchPrefixAndEli(p, i, T) ==
    /\ p.vdevs[i].type = "disk"
    /\ StrV(StripEliSuffix(StripDevPrefix(p.vdevs[i].path.s))) = T

\* Path rule with every '/dev/' removed and '.eli' kept.
PathMatchDevOnly(p, i, T) ==
    /\ p.vdevs[i].type = "disk"
    /\ StrV(Replace(p.vdevs[i].path.s, DEV)) = T

LocatorContract(PathMatch(_, _, _)) ==
    call.entry = "find_vdev" =>
        LET T == call.vname
            r == result.ret
            N == TreeNodes(pool)
            noGuid == \A j \in N : ~GuidMatch(pool, j, T)
        IN  /\ result.kind = "ok"
            /\ r # 0 => /\ r \in N
                        /\ \/ GuidMatch(pool, r, T)
                           \/ noGuid /\ PathMatch(pool, r, T)
            /\ r = 0 <=> \A j \in N : ~GuidMatch(pool, j, T) /\ ~PathMatch(pool, j, T)

\* C1 as stated: find_vdev returns a vdev whose guid is T, else a disk whose
\* path with the '/dev/' prefix and the trailing '.eli' removed is T, and None
\* exactly when no vdev below the root matches either rule.
C1_AsStated == LocatorContract(PathMatchPrefixAndEli)

\* C1 amended: find_vdev returns a vdev whose guid is T, else (no guid in the
\* tree being T) a disk whose path with every '/dev/' removed, '.eli' kept, is
\* T, and None exactly when no vdev below the root matches either rule.
C1_FindVdev == LocatorContract(PathMatchDevOnly)

\* A geli disk inside the mirror is found by its name with the '.eli' marker.
C1_Witness ==
    /\ call.entry = "find_vdev"
    /\ call.vname = StrV(<<"ada0", ELI>>)
    /\ result.ret = 2

----------------------------------------------------------------------------
(* Properties of extend and detach *)

ExistingOf(c) == OrEmpty(c.existing)

\* Some entry of the call's `existing` list does not resolve in the pool the
\* call started on.
SomeTargetUnresolved ==
    \E k \in 1..Len(ExistingOf(call)) : find_vdev(poolBefore, ExistingOf(call)[k].target) = 0

NoAttachIssued == \A k \in 1..Len(engineLog) : engineLog[k].op # "attach"

\* C2 as stated: extend with new and existing both absent or empty, in any
\* combination, fails with EINVAL and issues no attach.
C2_AsStated ==
    (call.entry = "extend" /\ ~Truthy(call.new) /\ ~Truthy(call.existing)) =>
        /\ result.kind = "CallError"
        /\ result.code = EINVAL
        /\ NoAttachIssued

\* C3: when extend reaches its existing-attachments loop (no new vdevs asked
\* for, pool found) and some target, at any position, does not resolve, the
\* call fails with EINVAL, no attach is issued for any entry and the pool's
\* vdev tree is unchanged.
C3_ValidateBeforeActing ==
    (/\ call.entry = "extend"
     /\ ~Truthy(call.new)
     /\ call.name \in PoolNames
     /\ SomeTargetUnresolved) =>
        /\ result.kind = "CallError"
        /\ result.code = EINVAL
        /\ engineLog = <<>>
        /\ pool = poolBefore

\* An unresolvable target listed after a resolvable one.
C3_Witness ==
    /\ call.entry = "extend"
    /\ ~Truthy(call.new)
    /\ call.name \in PoolNames
    /\ Len(ExistingOf(call)) = 2
    /\ find_vdev(poolBefore, ExistingOf(call)[1].target) # 0
    /\ find_vdev(poolBefore, ExistingOf(call)[2].target) = 0
    /\ result.code = EINVAL

\* C4 as stated: the EINVAL error extend raises for an unresolvable target
\* names the identifier the caller supplied for the first unresolvable entry.
C4_AsStated ==
    (/\ call.entry = "extend"
     /\ result.kind = "CallError"
     /\ result.msg = "Failed to find vdev for {}") =>
        \E k \in 1..Len(ExistingOf(call)) :
            /\ find_vdev(poolBefore, ExistingOf(call)[k].target) = 0
            /\ \A j \in 1..(k - 1) : find_vdev(poolBefore, ExistingOf(call)[j].target) # 0
            /\ result.arg = ExistingOf(call)[k].target

\* C5: detach of a label find_vdev does not resolve in the pool fails with
\* EINVAL, never calls the engine's detach and leaves the vdev tree unchanged.
C5_DetachUnknown ==
    (/\ call.entry = "detach"
     /\ call.name \in PoolNames
     /\ find_vdev(poolBefore, call.label) = 0) =>
        /\ result.kind = "CallError"
        /\ result.code = EINVAL
        /\ \A k \in 1..Len(engineLog) : engineLog[k].op # "detach"
        /\ pool = poolBefore

C5_Witness ==
    /\ call.entry = "detach"
    /\ call.name \in PoolNames
    /\ find_vdev(poolBefore, call.label) = 0
    /\ result.kind = "CallError"

\* The call has ended on an engine rejection.
EngineRejected == engineErr # NoErr /\ callerPc = "raised"

\* C6 as stated: in every pool entry point, get_disks included, an engine
\* rejection reaches the caller as an error with the engine's own code.
C6_AsStated ==
    EngineRejected => result.kind = "CallError" /\ result.code = engineErr

\* C6 amended: in extend, detach, replace and scrub an engine rejection reaches
\* the caller as an error with the engine's own code; in get_disks it reaches
\* the caller as an error with code ENOENT, whatever the engine's code.
C6_EngineCode ==
    EngineRejected =>
        /\ result.kind = "CallError"
        /\ call.entry \in {"extend", "detach", "replace", "scrub"} => result.code = engineErr
        /\ call.entry = "get_disks" => result.code = ENOENT

\* The engine refuses the detach of a vdev the service resolved.
C6_Witness ==
    /\ call.entry = "detach"
    /\ EngineRejected
    /\ engineErr # ENOENT
    /\ Len(engineLog) = 1

\* Disks of `after` that `before` did not have.
NewDisks(before, after) ==
    { i \in (Len(before.vdevs) + 1)..Len(after.vdevs) : after.vdevs[i].type = "disk" }

\* C10: once all targets have resolved, extend attaches entry by entry in the
\* order supplied; when the engine fails on the k-th attach, entries 1..k-1
\* are attached and stay attached, no entry after k is attempted, and the
\* failure is surfaced at once with the engine's code.
C10_NoRollback ==
    (/\ call.entry = "extend"
     /\ call.existing.some
     /\ ~Truthy(call.new)
     /\ call.name \in PoolNames
     /\ ~SomeTargetUnresolved
     /\ callerPc \in {"returned", "raised"}) =>
        LET ex == ExistingOf(call)
            tg == [j \in 1..Len(ex) |-> find_vdev(poolBefore, ex[j].target)]
            tried == Len(engineLog)
            made == IF engineErr = NoErr THEN tried ELSE tried - 1
            added == NewDisks(poolBefore, pool)
        IN  /\ tried <= Len(ex)
            /\ engineErr = NoErr => tried = Len(ex) /\ result.kind = "ok"
            /\ engineErr # NoErr => /\ tried >= 1
                                    /\ result.kind = "CallError"
                                    /\ result.code = engineErr
            /\ \A j \in 1..tried :
                   engineLog[j] = [op |-> "attach", target |-> tg[j], path |-> ex[j].path]
            /\ Cardinality(added) = made
            /\ added \subseteq TreeNodes(pool)
            /\ \A j \in 1..made : \E i \in added :
                   /\ pool.vdevs[i].path = StrV(ex[j].path)
                   /\ ParentOf(pool, i) # 0
                   /\ ParentOf(pool, i) = ParentOf(pool, tg[j])

\* The engine rejects the second attach after accepting the first.
C10_Witness ==
    /\ call.entry = "extend"
    /\ call.name \in PoolNames
    /\ ~SomeTargetUnresolved
    /\ engineErr # NoErr
    /\ Len(engineLog) = 2
    /\ Cardinality(NewDisks(poolBefore, pool)) = 1

----------------------------------------------------------------------------
(* Properties of the scrub monitor *)

IsScanning(o) == o.function = "scrub" /\ o.state = "scanning"
IsFinished(o) == o.function = "scrub" /\ o.state = "finished"
IsTerminal(o) == o.function # "scrub" \/ o.state \in {"finished", "canceled"}

Percents(reports) == [k \in 1..Len(reports) |-> reports[k].percentage]

\* C7: when the monitor has observed Scanning samples followed by Finished,
\* it has reported each sample's percentage once, in order, then 100, and it
\* has stopped; Finished is never followed by another observation.
C7_ScanningThenFinished ==
    LET n == Len(obs)
    IN  /\ \A k \in 1..n : IsFinished(obs[k]) => k = n /\ watchPc = "done"
        /\ (n > 0 /\ IsFinished(obs[n]) /\ \A k \in 1..(n - 1) : IsScanning(obs[k])) =>
               Percents(progress) =
                   [k \in 1..n |-> IF k < n THEN obs[k].percentage ELSE 100]

C7_Witness ==
    /\ Len(obs) = 3
    /\ IsScanning(obs[1]) /\ IsScanning(obs[2]) /\ IsFinished(obs[3])
    /\ obs[1].percentage # obs[2].percentage
    /\ watchPc = "done"

\* C8: a monitor that stopped on anything but Finished has reported exactly
\* the percentages of the Scanning samples it observed and no completion; the
\* completion report is made only when the last observation is Finished.
C8_NoFinalReport ==
    LET n == Len(obs)
        samples == SelectSeq(obs, IsScanning)
    IN  /\ (watchPc = "done" /\ n > 0 /\ ~IsFinished(obs[n])) =>
               progress = [k \in 1..Len(samples) |->
                               Report(samples[k].percentage, "Scrubbing")]
        /\ (\E k \in 1..Len(progress) : progress[k].message = "Scrub finished") =>
               n > 0 /\ IsFinished(obs[n])

C8_Witness ==
    /\ watchPc = "done"
    /\ Len(obs) = 2
    /\ IsScanning(obs[1]) /\ obs[1].percentage = 30
    /\ obs[2].function = "scrub" /\ obs[2].state = "canceled"
    /\ progress = << Report(30, "Scrubbing") >>

ScrubReturned == call.entry = "scrub" /\ callerPc = "returned"

\* C9: scrub() returns only after the monitor thread has observed a terminal
\* condition and ended, and nothing is observed or reported after the return.
C9_Synchronous ==
    /\ [](ScrubReturned =>
              /\ watchPc = "done"
              /\ Len(obs) > 0
              /\ IsTerminal(obs[Len(obs)]))
    /\ [][(ScrubReturned /\ ScrubReturned') => (progress' = progress /\ obs' = obs)]_vars

C9_Witness ==
    /\ ScrubReturned
    /\ Len(progress) >= 2

====
